---- MODULE Spec2Model ----
(***************************************************************************)
(* A model of the stochastic growth model problem set:                     *)
(*   src/ps1_3cd.py  rouwenhorst                                           *)
(*   src/ps1_5de.py  planner.setup, util, tauchen, plan_allocations,       *)
(*                   intra_foc, grow_economy                               *)
(*                                                                         *)
(* Real numbers are modelled by integers.  Probabilities of rouwenhorst    *)
(* are exact rationals (a numerator matrix over a common denominator).     *)
(***************************************************************************)
EXTENDS Integers, Sequences, FiniteSets, TLC

VARIABLES pc, rw, tau, kwargs, par, n0, uall, v0, k1, n1, diff, iter, out, sol, sim,
          rng, prev

\* The state of one run of setup, plan_allocations and grow_economy.
runVars == <<kwargs, par, n0, uall, v0, k1, n1, diff, iter, out, sol, sim, rng, prev>>

vars == <<pc, rw, tau, runVars>>

----------------------------------------------------------------------------
(* Generic helpers.                                                        *)

RECURSIVE SumSeq(_)
SumSeq(s) == IF s = <<>> THEN 0 ELSE Head(s) + SumSeq(Tail(s))

Max2(a, b) == IF a >= b THEN a ELSE b
Min2(a, b) == IF a <= b THEN a ELSE b

NoRw == [N |-> 2, a |-> 0, P |-> [num |-> <<>>, den |-> 1]]
NoPar == [main |-> "None"]
NoKwargs == [main |-> "None"]
NoDiff == [kind |-> "num", sq |-> 0]

\* numpy's global generator before seed is called: seeded from the system
\* (seed -1), no value drawn.  memo keeps, for each seed used, the values the
\* generator has returned after that seed, in order: the generator is a
\* function of its seed and of the number of draws since.
NoRng == [seed |-> -1, pos |-> 0, memo |-> <<>>]

\* No run of the planner: used by the specifications of the stand-alone
\* functions.
RunIdle ==
    /\ kwargs = NoKwargs /\ par = NoPar
    /\ n0 = <<>> /\ uall = <<>> /\ v0 = <<>> /\ k1 = <<>> /\ n1 = <<>>
    /\ diff = NoDiff /\ iter = 0 /\ out = <<>> /\ sol = <<>> /\ sim = <<>>
    /\ rng = NoRng /\ prev = <<>>
NoTau == [in |-> <<>>, y |-> <<>>, d |-> 0, pmat |-> <<>>, raised |-> FALSE]

----------------------------------------------------------------------------
(* src/ps1_3cd.py: rouwenhorst(N, p), with p = a / PDen.                   *)
(* The matrix is a record [num, den]: entry (i,j) is num[i][j] / den.      *)

PDen == 16
MaxRN == 5

\* Entry (i,j) of the (n-1)x(n-1) matrix M padded with zeros to n x n, the
\* block M placed at row offset ro and column offset co (np.block).
Block(M, n, ro, co, i, j) ==
    IF i - ro >= 1 /\ i - ro <= n - 1 /\ j - co >= 1 /\ j - co <= n - 1
    THEN M[i - ro][j - co] ELSE 0

\* P[1:-1] /= 2 over the common denominator 2*den: the interior rows keep
\* their numerators, the first and the last row double theirs.
RowWeightNoHalving(i, n) == 2
RowWeight(i, n) == IF i > 1 /\ i < n THEN 1 ELSE 2

RECURSIVE rouwenhorst(_, _)
rouwenhorst(N, a) ==
    IF N = 2
    THEN [num |-> << <<a, PDen - a>>, <<PDen - a, a>> >>, den |-> PDen]
    ELSE LET P_prev == rouwenhorst(N - 1, a)
             M == P_prev.num
         IN  [num |-> [i \in 1..N |-> [j \in 1..N |->
                         RowWeight(i, N) *
                           ( a * Block(M, N, 0, 0, i, j)
                           + (PDen - a) * Block(M, N, 0, 1, i, j)
                           + (PDen - a) * Block(M, N, 1, 0, i, j)
                           + a * Block(M, N, 1, 1, i, j) )]],
              den |-> 2 * PDen * P_prev.den]

----------------------------------------------------------------------------
(* Floating point.  A float is an integer number of base units that keeps  *)
(* MantBits significant bits: every arithmetic result is rounded to the    *)
(* nearest representable value, ties to even (IEEE 754 with a short        *)
(* mantissa; the program's doubles keep 53 bits).                          *)

MantBits == 16

RECURSIVE Pow2(_)
Pow2(n) == IF n = 0 THEN 1 ELSE 2 * Pow2(n - 1)

Abs(x) == IF x < 0 THEN -x ELSE x

RECURSIVE UlpFrom(_, _)
UlpFrom(ax, q) == IF ax < q * Pow2(MantBits) THEN q ELSE UlpFrom(ax, 2 * q)

\* The nearest multiple of q to ax >= 0, ties to the even multiple.
RoundTo(ax, q) ==
    LET lo == ax \div q
        r2 == 2 * (ax % q)
    IN  IF r2 < q THEN lo * q
        ELSE IF r2 > q THEN (lo + 1) * q
        ELSE IF lo % 2 = 0 THEN lo * q ELSE (lo + 1) * q

Fl(x) == IF x < 0 THEN -RoundTo(-x, UlpFrom(-x, 1)) ELSE RoundTo(x, UlpFrom(x, 1))

\* a / b for b > 0, to the nearest unit and then to the nearest float.
RoundDiv(a, b) == (2 * a + b) \div (2 * b)
FDiv(a, b) == Fl(RoundDiv(a, b))

\* a / b to the nearest unit, for b of either sign.
SDiv(a, b) == IF b < 0 THEN RoundDiv(-a, -b) ELSE RoundDiv(a, b)

\* The largest r with r * r <= n (Newton's iteration from above).
RECURSIVE NewtonSqrt(_, _)
NewtonSqrt(n, x) ==
    LET y == (x + n \div x) \div 2 IN IF y >= x THEN x ELSE NewtonSqrt(n, y)
ISqrt(n) == IF n <= 0 THEN 0 ELSE NewtonSqrt(n, n)

----------------------------------------------------------------------------
(* src/ps1_5de.py: tauchen(mu, rho, sigma, N, m).                          *)
(* rho = rhoNum / rhoDen; mu, sigma and the grid are floats in base units; *)
(* m and N are whole numbers; probabilities are thousandths.               *)

CdfOne == 1000

\* stats.norm.cdf at z = z2 / 2 standard deviations, in thousandths.
PhiTab == <<1, 6, 23, 67, 159, 309, 500, 691, 841, 933, 977, 994, 999>>

\* stats.norm.cdf(x, loc, scale): the standard normal CDF at (x-loc)/scale,
\* read from the table at the half standard deviation at or below it.
NormCdf(x, loc, scale) ==
    LET z2 == (2 * Fl(x - loc)) \div scale
    IN  IF z2 < -6 THEN 0 ELSE IF z2 > 6 THEN CdfOne ELSE PhiTab[z2 + 7]

\* 0.999999 as (RowTolDen - 1) / RowTolDen.
RowTolDen == 1000000

\* pmat.sum(axis=1) < 0.999999, for a row sum s in thousandths.
RowSumTwoSided(s) ==
    \/ s * (RowTolDen \div CdfOne) < RowTolDen - 1
    \/ s * (RowTolDen \div CdfOne) > RowTolDen + 1
RowSumRejected(s) == s * (RowTolDen \div CdfOne) < RowTolDen - 1

\* np.linspace(y1, yn, N, endpoint=True, retstep=True).
Linspace(y1, yn, N) ==
    LET step == FDiv(Fl(yn - y1), N - 1)
    IN  [y |-> [k \in 1..N |-> IF k = N THEN yn ELSE Fl(Fl((k - 1) * step) + y1)],
         d |-> step]

tauchen(mu, rhoNum, rhoDen, sigma, N, m) ==
    LET ar_mean == FDiv(mu * rhoDen, rhoDen - rhoNum)
        ar_sd   == FDiv(sigma * rhoDen, ISqrt(rhoDen * rhoDen - rhoNum * rhoNum))
        y1      == Fl(ar_mean - Fl(m * ar_sd))
        yn      == Fl(ar_mean + Fl(m * ar_sd))
        grid    == Linspace(y1, yn, N)
        y       == grid.y
        d       == grid.d
        hd      == FDiv(d, 2)
        \* ymatj: mu + rho*y[j], the conditional mean in state j.
        ymatj   == [j \in 1..N |-> Fl(mu + FDiv(rhoNum * y[j], rhoDen))]
        locLo   == [j \in 1..N |-> Fl(ymatj[j] - hd)]
        locHi   == [j \in 1..N |-> Fl(ymatj[j] + hd)]
        pmat    == [j \in 1..N |-> [k \in 1..N |->
                      IF k = 1 THEN NormCdf(y[1], locLo[j], sigma)
                      ELSE IF k = N THEN CdfOne - NormCdf(y[N], locHi[j], sigma)
                      ELSE NormCdf(y[k], locLo[j], sigma)
                           - NormCdf(y[k], locHi[j], sigma)]]
        raised  == \E j \in 1..N : RowSumRejected(SumSeq(pmat[j]))
    IN  [y |-> y, d |-> d, pmat |-> pmat, raised |-> raised]

\* sigma_eps in tauchen's base units: the base unit is sigma_eps / SigmaUnits.
SigmaUnits == 720

----------------------------------------------------------------------------
(* src/ps1_5de.py: planner.setup with its kwargs.                            *)
(* Units of the parameters: beta in 1/10000; sigma, gamma, nu, alpha,      *)
(* delta in 1/100; sigma_eps in 1/1000; rho a fraction <<num, den>>; mu in *)
(* tauchen's base units (sigma_eps / SigmaUnits); capital in 1/100.        *)

\* (0.33/((1.0/0.96)-1+0.05))**(1.0/(1.0-0.33)) = 6.77 (line 95, evaluated
\* on the default alpha, beta and delta, before the kwargs are read).
KssDefault == 677

Merge(base, over) ==
    [k \in DOMAIN base \cup DOMAIN over |-> IF k \in DOMAIN over THEN over[k] ELSE base[k]]

\* Lines 75-103: the defaults, with the capital bounds of lines 95-99.
SetupDefaults ==
    [beta |-> 9600, sigma |-> 200, gamma |-> 100, nu |-> 4,
     alpha |-> 33, delta |-> 5, sigma_eps |-> 70, rho |-> <<9, 10>>, mu |-> 0,
     seed_sim |-> 2025, T |-> 100,
     kss |-> KssDefault, klen |-> 300,
     kmax |-> RoundDiv(125 * KssDefault, 100),
     kmin |-> RoundDiv(75 * KssDefault, 100),
     Alen |-> 7, m |-> 3]

\* Lines 109-122: the assertions, in order.
SetupAsserts(p) ==
    /\ p.main # "None"
    /\ p.figout # "None"
    /\ p.beta > 0 /\ p.beta < 10000
    /\ p.sigma >= 100
    /\ p.gamma > 0
    /\ p.nu > 0
    /\ p.alpha > 0 /\ p.alpha < 100
    /\ p.delta >= 0 /\ p.delta <= 100
    /\ p.sigma_eps > 0
    /\ Abs(p.rho[1]) < p.rho[2]
    /\ p.Alen > 3
    /\ p.m > 0
    /\ p.klen > 5
    /\ p.kmax > p.kmin

\* linspace(par.kmin, par.kmax, par.klen), in hundredths.
KGrid(p) == [i \in 1..p.klen |-> p.kmin + RoundDiv((i - 1) * (p.kmax - p.kmin), p.klen - 1)]

\* The keyword arguments of the runs: a base configuration and one override.
KwBase ==
    [main |-> "cwd", figout |-> "cwd/output", alpha |-> 50, nu |-> 100,
     rho |-> <<3, 5>>, klen |-> 6, Alen |-> 4, T |-> 2]

KwAccepted ==
    { [gamma |-> 100], [gamma |-> 400], [delta |-> 50], [beta |-> 9999],
      [rho |-> <<4, 5>>, m |-> 40, sigma_eps |-> 10],
      [kmin |-> 508, kmax |-> 509],
      [rho |-> <<4, 5>>, m |-> 40, sigma_eps |-> 1, delta |-> 20,
       kmin |-> 100, kmax |-> 1100] }

KwRejected ==
    { [main |-> "None"], [figout |-> "None"], [beta |-> 0], [beta |-> 10000],
      [sigma |-> 50], [gamma |-> 0], [nu |-> 0], [alpha |-> 0], [alpha |-> 100],
      [delta |-> -1], [delta |-> 101], [sigma_eps |-> 0], [rho |-> <<1, 1>>],
      [rho |-> <<-1, 1>>], [Alen |-> 3], [m |-> 0], [klen |-> 5], [kmax |-> 508] }

\* The configurations whose AR(1) intercept is too large for the grid to be
\* resolved: tauchen raises.
KwRaising == { [mu |-> 4194304, m |-> 1] }

\* exp(x) for x in thousandths, in thousandths: the Taylor polynomial of
\* exp(x/8), squared three times.
Exp1000(x) ==
    LET t  == SDiv(x, 8)
        e8 == 1000 + t + RoundDiv(t * t, 2000) + SDiv(t * t * t, 6000000)
        e4 == RoundDiv(e8 * e8, 1000)
        e2 == RoundDiv(e4 * e4, 1000)
    IN  RoundDiv(e2 * e2, 1000)

\* par.Agrid = exp(Agrid), line 129: the grid in base units to productivity
\* in hundredths.
ExpGrid(y, sigma_eps) ==
    [j \in 1..Len(y) |-> RoundDiv(Exp1000(RoundDiv(y[j] * sigma_eps, SigmaUnits)), 10)]

----------------------------------------------------------------------------
(* Arithmetic of the growth model: capital, labor, output, consumption and *)
(* utility are fixed-point numbers in hundredths; -inf, +inf and nan are   *)
(* kept apart from the numbers, with the IEEE rules the code relies on.    *)

VScale == 100
BetaDen == 10000

PosInf == 2000000000
NegInf == -2000000000
NaN == 2000000001

IsNum(x) == x # PosInf /\ x # NegInf /\ x # NaN

\* a * b / c for 0 <= b <= c, without forming a * b.
MulDiv(a, b, c) == (a \div c) * b + RoundDiv((a % c) * b, c)

FMul(a, b) == RoundDiv(a * b, VScale)
FDivS(a, b) == SDiv(a * VScale, b)
SqrtS(x) == ISqrt(x * VScale)

\* a * b for numbers a, b >= 0, overflowing to +inf.
FMulSat(a, b) == IF b > 0 /\ a > (PosInf \div 2 - VScale) \div b THEN PosInf ELSE FMul(a, b)

\* x ** k for a whole number k >= 0.
RECURSIVE PowS(_, _)
PowS(x, k) == IF k = 0 THEN VScale ELSE FMul(x, PowS(x, k - 1))

\* x ** a for a in hundredths: the exponents the runs use.
PowFrac(x, a) == CASE a = 50 -> SqrtS(x) [] a = 0 -> VScale [] a = 100 -> x

\* a + b under the IEEE rules.
XAdd(a, b) ==
    IF a = NaN \/ b = NaN THEN NaN
    ELSE IF a = PosInf THEN (IF b = NegInf THEN NaN ELSE PosInf)
    ELSE IF a = NegInf THEN (IF b = PosInf THEN NaN ELSE NegInf)
    ELSE IF IsNum(b) THEN a + b ELSE b

\* a - b under the IEEE rules.
XSub(a, b) ==
    XAdd(a, IF b = PosInf THEN NegInf ELSE IF b = NegInf THEN PosInf
            ELSE IF b = NaN THEN NaN ELSE -b)

\* v * p for a probability p in thousandths (0 * inf is nan).
XProb(v, p) ==
    IF v = NaN THEN NaN
    ELSE IF IsNum(v) THEN MulDiv(v, p, CdfOne)
    ELSE IF p = 0 THEN NaN ELSE v

RECURSIVE XSum(_)
XSum(s) == IF s = <<>> THEN 0 ELSE XAdd(Head(s), XSum(Tail(s)))

\* a > b as Python and numpy compare: false when either side is nan.
XGt(a, b) == a # NaN /\ b # NaN /\ a > b

\* util(c, n, sigma, nu, gamma), lines 148-162, for c >= 0.
util(c, n, sigma, nu, gamma) ==
    LET e  == 100 \div nu
        un == PowS(VScale - n, 1 + e) \div (1 + e)
        s  == (sigma - 100) \div 100
        uc == CASE sigma > 100 ->
                     IF c = 0 THEN NegInf
                     ELSE -(PowS(FDivS(VScale, c), s) \div s)
    IN  XAdd(uc, FMul(gamma, un))

\* A * k**alpha * n**(1-alpha).
Output(A, k, n, alpha) == FMul(FMul(A, PowFrac(k, alpha)), PowFrac(n, 100 - alpha))

\* intra_foc(n, kp, A, k, alpha, delta, sigma, nu, gamma), lines 351-368.
intra_foc(n, kp, A, k, alpha, delta, sigma, nu, gamma) ==
    LET c   == Output(A, k, n, alpha) + (FMul(VScale - delta, k) - kp)
        mpl == FMul(FMul(A, VScale - alpha), PowFrac(FDivS(k, n), alpha))
        un  == -FMul(gamma, PowS(VScale - n, 100 \div nu))
        uc  == CASE sigma > 100 ->
                      IF c = 0 THEN PosInf
                      ELSE PowS(FDivS(VScale, c), sigma \div 100)
        ucn == XAdd(IF uc = PosInf THEN PosInf ELSE FMulSat(uc, mpl), un)
    IN  ucn

\* The points of [0,1] that the bounded minimizer evaluates.
NGrid == 10
LaborGrid == {1, VScale - 1} \cup {(i * VScale) \div NGrid : i \in 1..(NGrid - 1)}

\* fminbound(foc, 0.0, 1.0): the point of the grid with the least foc, the
\* lowest such point when several have it.
fminbound(foc, grid) ==
    CHOOSE n \in grid : \A o \in grid : foc[n] < foc[o] \/ (foc[n] = foc[o] /\ n <= o)

\* Lines 278-283: the labor table n0[h1][h2][h3].
LaborTable(p) ==
    [h1 \in 1..p.klen |-> [h2 \in 1..p.klen |-> [h3 \in 1..p.Alen |->
        LET foc == [n \in LaborGrid |->
                       intra_foc(n, p.kgrid[h2], p.Agrid[h3], p.kgrid[h1],
                                 p.alpha, p.delta, p.sigma, p.nu, p.gamma)]
        IN  fminbound(foc, LaborGrid)]]]

\* Lines 314-317 and 321-322 for state (h1, h3) and choice h2: the clamped
\* consumption c and the period utility util(c, n0[p,:,j]).  The loop
\* recomputes the same numbers in every pass.
ChoiceTable(p, lab) ==
    [h1 \in 1..p.klen |-> [h2 \in 1..p.klen |-> [h3 \in 1..p.Alen |->
        LET y == Output(p.Agrid[h3], p.kgrid[h1], lab[h1][h2][h3], p.alpha)
            i == p.kgrid[h2] - FMul(VScale - p.delta, p.kgrid[h1])
            c == Max2(y - i, 0)
        IN  [c |-> c, u |-> util(c, lab[h1][h2][h3], p.sigma, p.nu, p.gamma)]]]]

\* x / (1 - beta).
OverOneMinusBeta(x, beta) ==
    LET D == BetaDen - beta
    IN  IF IsNum(x) THEN (x \div D) * BetaDen + RoundDiv((x % D) * BetaDen, D) ELSE x

\* Lines 292-297: the first guess of the value function.
FirstGuess(p, lab) ==
    [h1 \in 1..p.klen |-> [h3 \in 1..p.Alen |->
        LET n  == lab[h1][2][h3]
            y0 == Output(p.Agrid[h3], p.kgrid[h1], n, p.alpha)
            i0 == FMul(p.delta, p.kgrid[h1])
            c0 == Max2(y0 - i0, 0)
        IN  IF c0 <= 0 THEN NegInf
            ELSE OverOneMinusBeta(util(c0, n, p.sigma, p.nu, p.gamma), p.beta)]]

\* max(vall), Python's builtin: the first element, replaced by each later
\* one that compares greater.
RECURSIVE PyMaxFrom(_, _, _)
PyMaxFrom(s, i, best) ==
    IF i > Len(s) THEN best
    ELSE PyMaxFrom(s, i + 1, IF XGt(s[i], best) THEN s[i] ELSE best)
PyMax(s) == PyMaxFrom(s, 2, s[1])

\* argmax(vall), numpy's: the first nan if there is one, else the first
\* index of the greatest element.
ArgMax(s) ==
    IF \E i \in 1..Len(s) : s[i] = NaN
    THEN CHOOSE i \in 1..Len(s) : s[i] = NaN /\ \A o \in 1..(i - 1) : s[o] # NaN
    ELSE CHOOSE i \in 1..Len(s) : (\A o \in 1..Len(s) : s[o] <= s[i])
                                  /\ \A o \in 1..(i - 1) : s[o] < s[i]

\* Lines 320-322: the value of every choice of k' in state (h1, h3).
Vall(p, ch, v, h1, h3) ==
    [h2 \in 1..p.klen |->
        LET ev == XSum([a \in 1..p.Alen |-> XProb(v[h2][a], p.pmat[h3][a])])
            bev == IF IsNum(ev) THEN MulDiv(ev, p.beta, BetaDen) ELSE ev
        IN  IF ch[h1][h2][h3].c <= 0 THEN NegInf
            ELSE XAdd(ch[h1][h2][h3].u, bev)]

\* norm(v1 - v0): nan if a difference is nan, else inf if one is infinite,
\* else the root of the sum of squares (kept squared, saturated).
SatSq(d) == IF Abs(d) > 40000 THEN PosInf ELSE d * d
SatAdd(a, b) == IF a = PosInf \/ b = PosInf \/ a > PosInf - b THEN PosInf ELSE a + b
RECURSIVE SatSum(_)
SatSum(s) == IF s = <<>> THEN 0 ELSE SatAdd(SatSq(Head(s)), SatSum(Tail(s)))

RECURSIVE Flatten(_)
Flatten(rows) == IF rows = <<>> THEN <<>> ELSE Head(rows) \o Flatten(Tail(rows))

Norm(a, b) ==
    LET d == Flatten([i \in 1..Len(a) |-> [j \in 1..Len(a[i]) |-> XSub(a[i][j], b[i][j])]])
    IN  IF \E i \in 1..Len(d) : d[i] = NaN THEN [kind |-> "nan", sq |-> 0]
        ELSE IF \E i \in 1..Len(d) : ~IsNum(d[i]) THEN [kind |-> "inf", sq |-> 0]
        ELSE [kind |-> "num", sq |-> SatSum(d)]

\* crit = 1e-6 and maxiter = 10000, lines 299-300.
CritDen == 1000000
maxiter == 10000

\* diff > crit: false for nan; a number exceeds 1e-6 when the sum of squares
\* is at least one squared hundredth.
DiffAboveCrit(d) ==
    \/ d.kind = "inf"
    \/ d.kind = "num" /\ d.sq > 0 /\ CritDen > VScale
----------------------------------------------------------------------------
(* grow_economy: the stationary row, the draws and the lookups.            *)

\* matrix_power works on entries of eight decimal digits: a finer
\* resolution than the probabilities', as the doubles' is.
PowHalf == 10000
PowOne == PowHalf * PowHalf

\* a * b for entries a, b in 0..PowOne, without forming the product.
MulP(a, b) ==
    LET a1 == a \div PowHalf
        a0 == a % PowHalf
        b1 == b \div PowHalf
        b0 == b % PowHalf
    IN  a1 * b1 + RoundDiv(a1 * b0 + a0 * b1, PowHalf) + RoundDiv(a0 * b0, PowOne)

\* a @ b, every entry evaluated once.
MatMul(a, b) ==
    [i \in 1..Len(a) |-> [j \in 1..Len(b[1]) |->
        SumSeq([k \in 1..Len(b) |-> MulP(a[i][k], b[k][j])])] \o <<>>] \o <<>>

\* matrix_power(a, n) for n > 3: numpy squares a once per binary digit of n
\* and multiplies the squares of the digits that are set.  Each product is
\* evaluated once.
RECURSIVE MatPowFrom(_, _, _, _)
MatPowFrom(z, n, result, started) ==
    CHOOSE pw \in
        { IF n \div 2 = 0 THEN r ELSE MatPowFrom(zz, n \div 2, r, started \/ n % 2 = 1) :
            zz \in {IF n \div 2 = 0 THEN z ELSE MatMul(z, z)},
            r  \in {IF n % 2 = 0 THEN result
                    ELSE IF started THEN MatMul(result, z) ELSE z} } : TRUE
matrix_power(a, n) ==
    LET a8 == [i \in 1..Len(a) |-> [j \in 1..Len(a[i]) |-> a[i][j] * (PowOne \div CdfOne)]]
    IN  MatPowFrom(a8, n, a8, FALSE)

\* cumsum(pmat, axis=1).
RECURSIVE CumSumRow(_, _)
CumSumRow(row, i) == IF i = 0 THEN <<>> ELSE Append(CumSumRow(row, i - 1), SumSeq(SubSeq(row, 1, i)))
cumsum(m) == [i \in 1..Len(m) |-> CumSumRow(m[i], Len(m[i]))]

\* choice(range(n), 1, p=p) raises unless p sums to one within the square
\* root of the resolution of its entries.
ChoiceRaises(p) == Abs(SumSeq(p) - PowOne) > PowHalf

\* The indices choice can return: those of positive probability.
ChoiceSupport(p) == {i \in 1..Len(p) : p[i] > 0}

\* seed(s), line 425: the generator restarts the sequence of the seed s.
SeedKeepsPosition(g, s) == [g EXCEPT !.seed = s]
Seed(g, s) == [g EXCEPT !.seed = s, !.pos = 0]

\* The values the generator has returned so far after its present seed.
Returned(g) == IF g.seed \in DOMAIN g.memo THEN g.memo[g.seed] ELSE <<>>

\* The values the next call of the generator can return, out of the range
\* S of the call: the value it returned at this position after this seed,
\* if it was ever there, else any value of S.
NextValues(g, S) ==
    IF g.pos < Len(Returned(g)) THEN {Returned(g)[g.pos + 1]} ELSE S

\* The generator after it returned v.
Advance(g, v) ==
    [g EXCEPT !.pos = g.pos + 1,
              !.memo = IF g.pos < Len(Returned(g)) THEN g.memo
                       ELSE [s \in DOMAIN g.memo \cup {g.seed} |->
                                IF s = g.seed THEN Append(Returned(g), v) ELSE g.memo[s]]]

\* The values of rand(1), in thousandths.
Draws == {0, 999}

\* where(r <= cmat[At,:]): the indices of the row that the draw selects.
Where(r, crow) == {i \in 1..Len(crow) : r <= crow[i]}

\* where(ksim[j-1] == kgrid).
KLookup(k, kgrid) == {i \in 1..Len(kgrid) : kgrid[i] = k}

\* sin(linspace(0, 4*pi, 2*T)) in hundredths, for the horizons of the runs.
SinSeries(T) == CASE T = 2 -> <<0, -87, 87, 0>>

\* gamma_base + 0.3 * sin(...), line 414.
GammaSeries(p) == [j \in 1..(2 * p.T) |-> p.gamma + SDiv(30 * SinSeries(p.T)[j], 100)]

Zeros(n) == [j \in 1..n |-> 0]

\* Lines 445-451 (and 432-438): period j of the path, read from the policy
\* tables at capital index ki and productivity index Ai.
Record(s, p, so, j, ki, Ai) ==
    [s EXCEPT !.Asim[j] = p.Agrid[Ai],
              !.ysim[j] = so.y[ki][Ai],
              !.csim[j] = so.c[ki][Ai],
              !.nsim[j] = so.n[ki][Ai],
              !.ksim[j] = so.k[ki][Ai],
              !.isim[j] = so.i[ki][Ai],
              !.usim[j] = util(so.c[ki][Ai], so.n[ki][Ai], p.sigma, p.nu, GammaSeries(p)[j])]

\* a[T:2*T+1] of an array of length 2*T.
SecondHalf(a, T) == SubSeq(a, T + 1, Min2(2 * T + 1, Len(a)))
----------------------------------------------------------------------------
(* One run of the program (run_colab.py): planner.setup, plan_allocations  *)
(* and grow_economy, for each configuration of keyword arguments.          *)

Init ==
    /\ pc = "setup"
    /\ rw = NoRw /\ tau = NoTau
    /\ \E over \in KwAccepted \cup KwRejected \cup KwRaising : kwargs = Merge(KwBase, over)
    /\ par = NoPar
    /\ n0 = <<>> /\ uall = <<>> /\ v0 = <<>> /\ k1 = <<>> /\ n1 = <<>>
    /\ diff = NoDiff /\ iter = 0 /\ out = <<>> /\ sol = <<>> /\ sim = <<>>
    /\ rng = NoRng /\ prev = <<>>

\* planner.setup, lines 55-133: an AssertionError leaves par as it stood at
\* the assertions; an exception of tauchen leaves it as it stood at the call.
Setup ==
    /\ pc = "setup"
    /\ LET p0 == Merge(SetupDefaults, kwargs)
       IN  IF ~SetupAsserts(p0)
           THEN par' = p0 /\ pc' = "rejected"
           ELSE LET p1 == Merge(p0, [kgrid |-> KGrid(p0)])
                    t  == tauchen(p0.mu, p0.rho[1], p0.rho[2], SigmaUnits, p0.Alen, p0.m)
                IN  IF t.raised
                    THEN par' = p1 /\ pc' = "setup_raised"
                    ELSE /\ par' = Merge(p1, [Agrid |-> ExpGrid(t.y, p0.sigma_eps),
                                              pmat |-> t.pmat])
                         /\ pc' = "ready"
    /\ UNCHANGED <<rw, tau, kwargs, n0, uall, v0, k1, n1, diff, iter, out, sol, sim, rng, prev>>

\* plan_allocations, lines 272-302: the labor table, the first guess and
\* the loop's counters.
PlanStart ==
    /\ pc = "ready"
    /\ n0' = LaborTable(par)
    /\ uall' = ChoiceTable(par, n0')
    /\ v0' = FirstGuess(par, n0')
    /\ diff' = [kind |-> "num", sq |-> VScale * VScale]
    /\ iter' = 0
    /\ pc' = "vfi"
    /\ UNCHANGED <<rw, tau, kwargs, par, k1, n1, out, sol, sim, rng, prev>>

\* The loop's condition, line 304.
LoopCondition == DiffAboveCrit(diff) /\ iter < maxiter

\* One pass of the loop, lines 306-330.
BellmanPass ==
    /\ pc = "vfi"
    /\ LoopCondition
    /\ \E cell \in {[p \in 1..par.klen |-> [j \in 1..par.Alen |->
                      LET vall == Vall(par, uall, v0, p, j)
                      IN  [v |-> PyMax(vall), a |-> ArgMax(vall)]]]} :
           /\ v0' = [p \in 1..par.klen |-> [j \in 1..par.Alen |-> cell[p][j].v]]
           /\ k1' = [p \in 1..par.klen |-> [j \in 1..par.Alen |-> par.kgrid[cell[p][j].a]]]
           /\ n1' = [p \in 1..par.klen |-> [j \in 1..par.Alen |-> n0[p][cell[p][j].a][j]]]
           /\ diff' = Norm(v0', v0)
    /\ iter' = iter + 1
    /\ UNCHANGED <<pc, rw, tau, kwargs, par, n0, uall, out, sol, sim, rng, prev>>

\* Lines 336-348: the message and the policy tables.
Solution(p, v, k, n) ==
    LET y == [h1 \in 1..p.klen |-> [h3 \in 1..p.Alen |->
                 Output(p.Agrid[h3], p.kgrid[h1], n[h1][h3], p.alpha)]]
        i == [h1 \in 1..p.klen |-> [h3 \in 1..p.Alen |->
                 k[h1][h3] - FMul(VScale - p.delta, p.kgrid[h1])]]
        c == [h1 \in 1..p.klen |-> [h3 \in 1..p.Alen |-> Max2(y[h1][h3] - i[h1][h3], 0)]]
    IN  [y |-> y, k |-> k, n |-> n, i |-> i, c |-> c,
         v |-> [h1 \in 1..p.klen |-> [h3 \in 1..p.Alen |->
                  IF c[h1][h3] <= 0 THEN NegInf ELSE v[h1][h3]]]]

PlanFinish ==
    /\ pc = "vfi"
    /\ ~LoopCondition
    /\ out' = <<"Converged in ", iter, " iterations.">>
    /\ sol' = Solution(par, v0, k1, n1)
    /\ pc' = "planned"
    /\ UNCHANGED <<rw, tau, kwargs, par, n0, uall, v0, k1, n1, diff, iter, sim, rng, prev>>

\* grow_economy, lines 412-441: the containers, the stationary row, the
\* initial state and the first draw.
SimStart ==
    /\ pc = "planned"
    /\ \E pmat0 \in {matrix_power(par.pmat, 1000)[1]}, cmat \in {cumsum(par.pmat)} :
       LET s0    == [gamma_series |-> SecondHalf(GammaSeries(par), par.T),
                     pmat0 |-> pmat0, j |-> 1, At_ind |-> 0, error |-> "",
                     Asim |-> Zeros(2 * par.T), ysim |-> Zeros(2 * par.T),
                     ksim |-> Zeros(2 * par.T), csim |-> Zeros(2 * par.T),
                     nsim |-> Zeros(2 * par.T), isim |-> Zeros(2 * par.T),
                     usim |-> Zeros(2 * par.T)]
           g0    == Seed(rng, par.seed_sim)
       IN  IF ChoiceRaises(pmat0)
           THEN /\ sim' = [s0 EXCEPT !.error = "ValueError: probabilities do not sum to 1"]
                /\ rng' = g0
                /\ pc' = "sim_raised"
           ELSE \E A0_ind \in NextValues(g0, ChoiceSupport(pmat0)) :
                \E g1 \in {Advance(g0, A0_ind)} :
                \E k0_ind \in NextValues(g1, 1..par.klen) :
                \E g2 \in {Advance(g1, k0_ind)} :
                \E r \in NextValues(g2, Draws) :
                    LET s1 == Record(s0, par, sol, 1, k0_ind, A0_ind)
                        A1_ind == Where(r, cmat[A0_ind])
                    IN  /\ rng' = Advance(g2, r)
                        /\ IF A1_ind = {}
                           THEN /\ sim' = [s1 EXCEPT !.error = "IndexError: index 0 is out of bounds"]
                                /\ pc' = "sim_raised"
                           ELSE /\ sim' = [s1 EXCEPT !.j = 2,
                                              !.At_ind = CHOOSE i \in A1_ind : \A o \in A1_ind : i <= o]
                                /\ pc' = "sim"
    /\ UNCHANGED <<rw, tau, kwargs, par, n0, uall, v0, k1, n1, diff, iter, out, sol, prev>>

\* One pass of the loop of lines 443-453.
SimStep ==
    /\ pc = "sim"
    /\ sim.j <= 2 * par.T
    /\ \E kt_ind \in {KLookup(sim.ksim[sim.j - 1], par.kgrid)}, cmat \in {cumsum(par.pmat)} :
           IF Cardinality(kt_ind) # 1
           THEN /\ sim' = [sim EXCEPT !.error = "ValueError: setting an array element with a sequence"]
                /\ rng' = rng
                /\ pc' = "sim_raised"
           ELSE \E r \in NextValues(rng, Draws) :
                    LET ki == CHOOSE i \in kt_ind : TRUE
                        s1 == Record(sim, par, sol, sim.j, ki, sim.At_ind)
                        A1_ind == Where(r, cmat[sim.At_ind])
                    IN  /\ rng' = Advance(rng, r)
                        /\ IF A1_ind = {}
                           THEN /\ sim' = [s1 EXCEPT !.error = "IndexError: index 0 is out of bounds"]
                                /\ pc' = "sim_raised"
                           ELSE /\ sim' = [s1 EXCEPT !.j = sim.j + 1,
                                              !.At_ind = CHOOSE i \in A1_ind : \A o \in A1_ind : i <= o]
                                /\ pc' = "sim"
    /\ UNCHANGED <<rw, tau, kwargs, par, n0, uall, v0, k1, n1, diff, iter, out, sol, prev>>

\* Lines 455-461: the second half of the path is kept.
SimFinish ==
    /\ pc = "sim"
    /\ sim.j > 2 * par.T
    /\ sim' = [sim EXCEPT !.Asim = SecondHalf(sim.Asim, par.T),
                          !.ysim = SecondHalf(sim.ysim, par.T),
                          !.ksim = SecondHalf(sim.ksim, par.T),
                          !.csim = SecondHalf(sim.csim, par.T),
                          !.nsim = SecondHalf(sim.nsim, par.T),
                          !.isim = SecondHalf(sim.isim, par.T),
                          !.usim = SecondHalf(sim.usim, par.T)]
    /\ pc' = "simulated"
    /\ UNCHANGED <<rw, tau, kwargs, par, n0, uall, v0, k1, n1, diff, iter, out, sol, rng, prev>>

\* The caller keeps the path and calls grow_economy once more on the same
\* planner, whose fresh namespace replaces sim (line 389).
SimAgain ==
    /\ pc = "simulated"
    /\ prev = <<>>
    /\ prev' = sim
    /\ sim' = <<>>
    /\ pc' = "planned"
    /\ UNCHANGED <<rw, tau, kwargs, par, n0, uall, v0, k1, n1, diff, iter, out, sol, rng>>

Next ==
    Setup \/ PlanStart \/ BellmanPass \/ PlanFinish \/ SimStart \/ SimStep \/ SimFinish
    \/ SimAgain

Spec == Init /\ [][Next]_vars
----------------------------------------------------------------------------
(* rouwenhorst called on its own, for N = 2..MaxRN and p = a / PDen.        *)

RwInit ==
    /\ pc = "rw_call"
    /\ tau = NoTau
    /\ RunIdle
    /\ rw \in [N : 2..MaxRN, a : 0..PDen, P : {[num |-> <<>>, den |-> 1]}]

CallRouwenhorst ==
    /\ pc = "rw_call"
    /\ rw' = [rw EXCEPT !.P = rouwenhorst(rw.N, rw.a)]
    /\ pc' = "rw_done"
    /\ UNCHANGED <<tau, runVars>>

RwNext == CallRouwenhorst

SpecRouwenhorst == RwInit /\ [][RwNext]_vars


\* C1: for every N >= 2 and p in [0,1] the matrix returned by rouwenhorst is
\* N x N, every entry lies in [0,1], every row sums to exactly 1, and for
\* N = 2 it is exactly [[p, 1-p], [1-p, p]].
C1_RowStochastic ==
    pc = "rw_done" =>
        /\ Len(rw.P.num) = rw.N
        /\ \A i \in 1..rw.N :
              /\ Len(rw.P.num[i]) = rw.N
              /\ \A j \in 1..rw.N : rw.P.num[i][j] >= 0 /\ rw.P.num[i][j] <= rw.P.den
              /\ SumSeq(rw.P.num[i]) = rw.P.den
        /\ rw.N = 2 =>
              /\ rw.P.den = PDen
              /\ rw.P.num = << <<rw.a, PDen - rw.a>>, <<PDen - rw.a, rw.a>> >>

C1_Witness ==
    /\ pc = "rw_done"
    /\ rw.N = MaxRN
    /\ rw.a > 0 /\ rw.a < PDen
    /\ rw.P.num[2][2] > 0 /\ rw.P.num[2][2] < rw.P.den

----------------------------------------------------------------------------
(* tauchen called on its own, over a bounded set of AR(1) parameters with  *)
(* |rho| < 1, sigma > 0, N >= 4 and m > 0.                                 *)

TauMu  == {0, 8, 4194304, 16777216}
TauRho == {<<0, 1>>, <<3, 5>>, <<4, 5>>}
TauN   == {4, 5}
TauM   == {1, 3, 14}

TauInit ==
    /\ pc = "tau_call"
    /\ rw = NoRw
    /\ RunIdle
    /\ \E mu \in TauMu, rho \in TauRho, N \in TauN, m \in TauM :
          tau = [NoTau EXCEPT !.in = [mu |-> mu, rhoNum |-> rho[1], rhoDen |-> rho[2],
                                      sigma |-> SigmaUnits, N |-> N, m |-> m]]

\* The call returns (y, pmat), or raises and returns nothing.
CallTauchen ==
    /\ pc = "tau_call"
    /\ LET i == tau.in
           r == tauchen(i.mu, i.rhoNum, i.rhoDen, i.sigma, i.N, i.m)
       IN  IF r.raised
           THEN /\ tau' = [tau EXCEPT !.raised = TRUE]
                /\ pc' = "tau_raised"
           ELSE /\ tau' = [tau EXCEPT !.y = r.y, !.d = r.d, !.pmat = r.pmat]
                /\ pc' = "tau_done"
    /\ UNCHANGED <<rw, runVars>>

TauNext == CallTauchen

SpecTauchen == TauInit /\ [][TauNext]_vars

TauRowSums == [j \in 1..Len(tau.pmat) |-> SumSeq(tau.pmat[j])]

\* C2: for all valid AR(1) parameters every row of the transition matrix
\* returned by tauchen sums to 1 within 1e-6 and every entry lies in [0,1].
C2_ReturnedRowsSumToOne ==
    pc = "tau_done" =>
        \A j \in 1..tau.in.N :
            /\ ~RowSumTwoSided(TauRowSums[j])
            /\ \A k \in 1..tau.in.N : tau.pmat[j][k] >= 0 /\ tau.pmat[j][k] <= CdfOne

\* C8: tauchen fails, returning no grid and no matrix, whenever a row of the
\* constructed matrix sums to less than 0.999999 or to more than 1.000001.
C8_RejectsOutsideBand ==
    pc \in {"tau_done", "tau_raised"} =>
        LET i == tau.in
            r == tauchen(i.mu, i.rhoNum, i.rhoDen, i.sigma, i.N, i.m)
        IN  (\E j \in 1..i.N : RowSumTwoSided(SumSeq(r.pmat[j])))
                => (pc = "tau_raised" /\ tau.y = <<>> /\ tau.pmat = <<>>)

----------------------------------------------------------------------------
(* The draw of the next productivity state (lines 427, 440-441, 452-453), *)
(* on transition matrices that pass tauchen's check, with probabilities    *)
(* and draws in units fine enough to tell 0.999999 from 1.                 *)

DrawOne == 10 * RowTolDen

\* The check of line 209 on a row sum in units of 1 / one.
BelowFloor(s, one) == s < one - one \div RowTolDen

\* Rows of a transition matrix, in units of 1 / DrawOne.
DrawRows ==
    << <<DrawOne, 0, 0, 0>>,
       <<2500000, 2500000, 2500000, 2499995>>,
       <<0, 5000000, 0, 5000000>>,
       <<3000000, 3000000, 3000000, 1000005>>,
       <<2500000, 2500000, 2500000, 2499000>> >>

\* The matrices tauchen returns: those with no row below the floor.
DrawMatrices ==
    { P \in { <<DrawRows[a], DrawRows[b], DrawRows[3], DrawRows[4]>> :
                 a \in 1..Len(DrawRows), b \in 1..Len(DrawRows) } :
        \A i \in 1..4 : ~BelowFloor(SumSeq(P[i]), DrawOne) }

\* Values of rand(1), in [0, 1).
FineDraws == {0, 1, 5000000, 9999990, 9999996, DrawOne - 1}

MaxDraws == 2

DrawInit ==
    /\ pc = "sim"
    /\ rw = NoRw /\ tau = NoTau
    /\ kwargs = NoKwargs
    /\ \E P \in DrawMatrices : par = [main |-> "cwd", pmat |-> P, Alen |-> 4, seed_sim |-> 2025]
    /\ n0 = <<>> /\ uall = <<>> /\ v0 = <<>> /\ k1 = <<>> /\ n1 = <<>>
    /\ diff = NoDiff /\ iter = 0 /\ out = <<>> /\ sol = <<>>
    /\ \E a \in 1..4 : sim = [j |-> 1, At_ind |-> a, error |-> ""]
    /\ rng = Seed(NoRng, 2025) /\ prev = <<>>

\* Lines 452-453 (and 440-441): rand(1), where, and the first index.
DrawNext ==
    /\ pc = "sim"
    /\ sim.j <= MaxDraws
    /\ \E r \in NextValues(rng, FineDraws), cmat \in {cumsum(par.pmat)} :
           LET A1_ind == Where(r, cmat[sim.At_ind])
           IN  /\ rng' = Advance(rng, r)
               /\ IF A1_ind = {}
                  THEN /\ sim' = [sim EXCEPT !.error = "IndexError: index 0 is out of bounds"]
                       /\ pc' = "sim_raised"
                  ELSE /\ sim' = [sim EXCEPT !.j = sim.j + 1,
                                     !.At_ind = CHOOSE i \in A1_ind : \A o \in A1_ind : i <= o]
                       /\ pc' = "sim"
    /\ UNCHANGED <<rw, tau, kwargs, par, n0, uall, v0, k1, n1, diff, iter, out, sol, prev>>

DrawSpecNext == DrawNext

SpecDraw == DrawInit /\ [][DrawSpecNext]_vars

\* C12: whatever the productivity state and the draw, the next state is the
\* first index whose cumulative probability is at least the draw, and there
\* is such an index.
C12_NextIndexExists ==
    [][ pc = "sim" /\ rng'.pos = rng.pos + 1 =>
            LET r    == Returned(rng')[rng'.pos]
                crow == cumsum(par.pmat)[sim.At_ind]
            IN  /\ pc' = "sim"
                /\ sim'.At_ind \in 1..par.Alen
                /\ r <= crow[sim'.At_ind]
                /\ \A i \in 1..(sim'.At_ind - 1) : r > crow[i] ]_vars
----------------------------------------------------------------------------
(* Properties of one run.                                                   *)

Planned == pc \in {"planned", "sim", "simulated", "sim_raised"}

\* The intratemporal condition of line 282 at the triple (h1, h2, h3).
FocAt(h1, h2, h3, n) ==
    intra_foc(n, par.kgrid[h2], par.Agrid[h3], par.kgrid[h1],
              par.alpha, par.delta, par.sigma, par.nu, par.gamma)

\* The condition changes sign on [0,1], so it has a root there.
RootExists(h1, h2, h3) ==
    \E a, b \in LaborGrid : FocAt(h1, h2, h3, a) <= 0 /\ FocAt(h1, h2, h3, b) >= 0

\* n is a root up to the resolution of the grid: the condition is zero at n
\* or changes sign between n and a neighbouring point.
RootAt(h1, h2, h3, n) ==
    \/ FocAt(h1, h2, h3, n) = 0
    \/ \E o \in LaborGrid :
          /\ \A q \in LaborGrid : ~(q > Min2(n, o) /\ q < Max2(n, o))
          /\ \/ FocAt(h1, h2, h3, n) < 0 /\ FocAt(h1, h2, h3, o) >= 0
             \/ FocAt(h1, h2, h3, n) > 0 /\ FocAt(h1, h2, h3, o) <= 0

\* C3: every entry of the labor table lies in [0,1] and is a root of the
\* intratemporal condition whenever the condition has a root in [0,1].
C3_LaborIsRootOfFoc ==
    n0 # <<>> =>
        \A h1 \in 1..par.klen, h2 \in 1..par.klen, h3 \in 1..par.Alen :
            /\ n0[h1][h2][h3] >= 0 /\ n0[h1][h2][h3] <= VScale
            /\ RootExists(h1, h2, h3) => RootAt(h1, h2, h3, n0[h1][h2][h3])

\* C4: the loop ends within maxiter passes, and when it ends before the cap
\* the last residual is a number below crit.
C4_EarlyExitMeansBelowCrit ==
    Planned =>
        /\ iter <= maxiter
        /\ iter < maxiter => diff.kind = "num" /\ ~DiffAboveCrit(diff)

\* C5: a run whose loop used all maxiter passes with the residual still
\* above crit is reported as not converged, and its policy tables carry the
\* residual and the number of passes.
C5_CapIsReportedAsNotConverged ==
    Planned /\ iter = maxiter /\ DiffAboveCrit(diff) =>
        /\ out[1] # "Converged in "
        /\ "residual" \in DOMAIN sol
        /\ "iter" \in DOMAIN sol

\* C6: in every cell of the policy tables output is consumption plus
\* investment.
C6_OutputIsConsumptionPlusInvestment ==
    Planned =>
        \A h1 \in 1..par.klen, h3 \in 1..par.Alen :
            sol.y[h1][h3] = sol.c[h1][h3] + sol.i[h1][h3]

\* C7: in every period of the returned path output less investment less
\* consumption is zero, and consumption is not negative.
C7_PathMeetsBudget ==
    pc = "simulated" =>
        \A t \in 1..Len(sim.ysim) :
            /\ sim.ysim[t] - sim.isim[t] - sim.csim[t] = 0
            /\ sim.csim[t] >= 0

\* The rows of a matrix agree, within the tolerance of choice.
RowsAgree(m) ==
    \A i, j \in 1..Len(m) : \A c \in 1..Len(m[i]) : Abs(m[i][c] - m[j][c]) <= PowHalf

\* C9: when the rows of the 1000th power of pmat do not agree, grow_economy
\* fails instead of drawing the first productivity state.
C9_NonErgodicChainIsRejected ==
    pc \in {"sim", "simulated"} => RowsAgree(matrix_power(par.pmat, 1000))

\* C10: a configuration that violates a constraint is rejected, and nothing
\* has been computed when it is: no steady state, no capital grid, no
\* transition matrix.
C10_RejectsBeforeComputing ==
    /\ pc # "setup" /\ ~SetupAsserts(Merge(SetupDefaults, kwargs)) => pc = "rejected"
    /\ pc = "rejected" =>
          /\ "kss" \notin DOMAIN par
          /\ "kgrid" \notin DOMAIN par
          /\ "pmat" \notin DOMAIN par

\* The seven sequences of a simulated path.
Path(s) == <<s.Asim, s.ksim, s.csim, s.isim, s.nsim, s.ysim, s.usim>>

\* C11: a second run of grow_economy on the same planner (same seed, same
\* policy tables, same transition matrix) returns the sequences of the
\* first, period by period.
C11_SameSeedSamePath ==
    pc = "simulated" /\ prev # <<>> => Path(sim) = Path(prev)

\* A second run has ended whose path moved between productivity states, on
\* draws that the first run took freely.
C11_Witness ==
    /\ pc = "simulated" /\ prev # <<>>
    /\ rng.seed = par.seed_sim /\ rng.pos = 2 + 2 * par.T
    /\ sim.Asim[1] # sim.Asim[2]
    /\ Path(sim) = Path(prev)

\* C13: at every period j >= 1 of the simulation the capital chosen in period
\* j-1 equals exactly one point of the capital grid; the values recorded for
\* period j are those of that cell at the current productivity index, and
\* the capital carried on is the cell's capital policy.
C13_LookupIsOneCell ==
    [][ pc = "sim" /\ sim.j <= 2 * par.T =>
            LET j     == sim.j
                Ai    == sim.At_ind
                cells == KLookup(sim.ksim[j - 1], par.kgrid)
            IN  /\ Cardinality(cells) = 1
                /\ \A ki \in cells :
                       /\ sim'.Asim[j] = par.Agrid[Ai]
                       /\ sim'.ysim[j] = sol.y[ki][Ai]
                       /\ sim'.csim[j] = sol.c[ki][Ai]
                       /\ sim'.nsim[j] = sol.n[ki][Ai]
                       /\ sim'.isim[j] = sol.i[ki][Ai]
                       /\ sim'.ksim[j] = sol.k[ki][Ai] ]_vars

\* The value of index a is not exceeded by any choice, and a choice whose
\* value is nan is the best only when no choice has a number for its value.
IsMaximiser(vall, a) ==
    /\ \A o \in 1..Len(vall) : ~XGt(vall[o], vall[a])
    /\ vall[a] = NaN => \A o \in 1..Len(vall) : ~IsNum(vall[o])

\* C14: in every pass of the loop and for every state (p, j) the capital
\* policy is the grid point at an index that maximises utility plus the
\* discounted expected value of the previous pass over all choices, the
\* labor policy is the labor table's entry at that index, the index has
\* positive consumption whenever some choice has, and the value is -inf when
\* no choice has.
C14_PolicyIsMaximiser ==
    [][ pc = "vfi" /\ iter' = iter + 1 =>
            \A p \in 1..par.klen, j \in 1..par.Alen :
                \E vall \in {Vall(par, uall, v0, p, j)} :
                    /\ \E a \in 1..par.klen :
                           /\ IsMaximiser(vall, a)
                           /\ k1'[p][j] = par.kgrid[a]
                           /\ n1'[p][j] = n0[p][a][j]
                           /\ (\E o \in 1..par.klen : uall[p][o][j].c > 0)
                                  => uall[p][a][j].c > 0
                    /\ (\A o \in 1..par.klen : uall[p][o][j].c <= 0)
                           => v0'[p][j] = NegInf ]_vars

\* (alpha/((1.0/beta)-1+delta))**(1.0/(1.0-alpha)), the expression of line
\* 95, in hundredths, for the capital shares whose exponent 1/(1-alpha) is a
\* whole number.
SteadyStateCapital(alpha, beta, delta) ==
    LET base == RoundDiv(VScale * alpha * beta, (BetaDen - beta) * VScale + delta * beta)
    IN  PowS(base, VScale \div (VScale - alpha))

\* C15: after an accepted setup the capital grid increases strictly from kmin
\* to kmax, and unless the bounds themselves were overridden they are 0.75
\* and 1.25 times the steady-state capital of the configured beta, alpha and
\* delta.
C15_GridFollowsConfiguration ==
    pc = "ready" =>
        /\ \A a, b \in 1..par.klen : a < b => par.kgrid[a] < par.kgrid[b]
        /\ par.kgrid[1] = par.kmin /\ par.kgrid[par.klen] = par.kmax
        /\ DOMAIN kwargs \cap {"kss", "kmin", "kmax"} = {} =>
               LET ss == SteadyStateCapital(par.alpha, par.beta, par.delta)
               IN  /\ par.kss = ss
                   /\ par.kmin = RoundDiv(75 * ss, 100)
                   /\ par.kmax = RoundDiv(125 * ss, 100)
====
